---------------------------- MODULE Spec2Model ----------------------------
(***************************************************************************)
(* Model of the Aviotec modelling console (kodapt/aviotec):                *)
(*   - src/rules/cameraFootprint.ts   calcFootprint                        *)
(*   - src/rules/aviotec.ts           calculateAviotec                     *)
(*   - src/views/Mode3DParam          aim / place / clamp state machine    *)
(*                                    and the coverage a render draws      *)
(*                                                                         *)
(* JavaScript numbers are modelled as a small floating-point system:       *)
(* a number is a record [k, v] with k = "fin" (v thousandths, |v| <=       *)
(* MaxFinite), k = "inf" (v = 1 or -1) or k = "nan".  Arithmetic           *)
(* follows IEEE-754 as JavaScript applies it: a result beyond MaxFinite    *)
(* overflows to an infinity, inf * 0 and inf - inf are NaN, every          *)
(* comparison with NaN is false, Math.max / Math.min return NaN when an    *)
(* argument is NaN.  Results are rounded toward zero to the grid of        *)
(* thousandths; that stands for IEEE rounding to the nearest double.       *)
(***************************************************************************)
EXTENDS Integers, Sequences, FiniteSets, TLC

VARIABLES
    fpParams,    \* calcFootprint: the argument of the call
    fpResult,    \* calcFootprint: the value returned
    fpDone,      \* calcFootprint: the call has returned
    avInputs,    \* calculateAviotec: the argument of the call
    avBase,      \* calculateAviotec: the local `base` (line 69)
    avOutputs,   \* calculateAviotec: the value returned
    avDone,      \* calculateAviotec: the call has returned
    inputs,          \* Mode3DParam: useState inputs
    cameraPlacement, \* Mode3DParam: useState cameraPlacement
    aimHit,          \* Mode3DParam: useState aimHit (drawn as the ghost marker)
    aimHitRef,       \* Mode3DParam: aimHitRef.current
    isEditing,       \* Mode3DParam: useState isEditing
    isEditingRef,    \* Mode3DParam: isEditingRef.current
    cast,            \* AimRaycaster: direction, surface normal and result of the last ray cast
    placedDirection, \* direction of the ray whose hit the current placement was confirmed from
    edits,           \* number of input fields edited so far
    keyE,            \* what the last event did, when it was a first press of KeyE
    cvInputs,    \* a render of Mode3DParam: the inputs state rendered
    coverage,    \* a render of Mode3DParam: footprint and the clamped size drawn
    cvDone       \* a render of Mode3DParam: the render has run

fpVars == <<fpParams, fpResult, fpDone>>
avVars == <<avInputs, avBase, avOutputs, avDone>>
uiVars == <<inputs, cameraPlacement, aimHit, aimHitRef, isEditing, isEditingRef,
            cast, placedDirection, edits, keyE>>
cvVars == <<cvInputs, coverage, cvDone>>
vars == <<fpVars, avVars, uiVars, cvVars>>

(***************************************************************************)
(* Numbers                                                                 *)
(***************************************************************************)
\* thousandths per unit: 0.5 is Fin(500), 0.001 is Fin(1)
Unit == 10^3

\* the largest finite magnitude, in thousandths (stands for Number.MAX_VALUE)
MaxFinite == 1000000

Fin(n) == [k |-> "fin", v |-> n]
NaN == [k |-> "nan", v |-> 0]
PosInf == [k |-> "inf", v |-> 1]
NegInf == [k |-> "inf", v |-> -1]

Abs(n) == IF n < 0 THEN -n ELSE n
Sgn(n) == IF n < 0 THEN -1 ELSE IF n > 0 THEN 1 ELSE 0

\* sign of a non-NaN number: -1, 0, 1
SignOf(a) == IF a.k = "inf" THEN a.v ELSE Sgn(a.v)

\* IEEE overflow: a finite result beyond the largest double is an infinity
Overflow(n) ==
    IF n > MaxFinite THEN PosInf
    ELSE IF n < -MaxFinite THEN NegInf
    ELSE Fin(n)

\* |x| * |y| / Unit, rounded down, without leaving 32-bit integers
MulMag(x, y) ==
    LET ax == Abs(x)
        ay == Abs(y)
    IN  (ax \div Unit) * ay + (((ax % Unit) * ay) \div Unit)

\* JavaScript a + b
FAdd(a, b) ==
    IF a.k = "nan" \/ b.k = "nan" THEN NaN
    ELSE IF a.k = "inf" /\ b.k = "inf" THEN (IF a.v = b.v THEN a ELSE NaN)
    ELSE IF a.k = "inf" THEN a
    ELSE IF b.k = "inf" THEN b
    ELSE Overflow(a.v + b.v)

\* JavaScript -a
FNeg(a) == IF a.k = "nan" THEN NaN ELSE [k |-> a.k, v |-> -a.v]

\* JavaScript a - b
FSub(a, b) == FAdd(a, FNeg(b))

\* JavaScript a * b
FMul(a, b) ==
    IF a.k = "nan" \/ b.k = "nan" THEN NaN
    ELSE IF a.k = "inf" \/ b.k = "inf"
         THEN (IF SignOf(a) * SignOf(b) = 0 THEN NaN
               ELSE IF SignOf(a) * SignOf(b) > 0 THEN PosInf ELSE NegInf)
    ELSE Overflow(Sgn(a.v) * Sgn(b.v) * MulMag(a.v, b.v))

\* JavaScript a / b
FDiv(a, b) ==
    IF a.k = "nan" \/ b.k = "nan" THEN NaN
    ELSE IF a.k = "inf" /\ b.k = "inf" THEN NaN
    ELSE IF a.k = "inf"
         THEN (IF SignOf(b) < 0 THEN FNeg(a) ELSE a)
    ELSE IF b.k = "inf" THEN Fin(0)
    ELSE IF b.v = 0
         THEN (IF a.v = 0 THEN NaN ELSE IF a.v > 0 THEN PosInf ELSE NegInf)
    ELSE Overflow(Sgn(a.v) * Sgn(b.v) * ((Abs(a.v) * Unit) \div Abs(b.v)))

\* JavaScript a < b, a <= b, a > b, a === b (all false when an operand is NaN)
FLt(a, b) ==
    /\ a.k # "nan"
    /\ b.k # "nan"
    /\ IF a.k = "inf" THEN a.v < 0 /\ b # a
       ELSE IF b.k = "inf" THEN b.v > 0
       ELSE a.v < b.v
FEq(a, b) == a.k # "nan" /\ b.k # "nan" /\ a = b
FLe(a, b) == FLt(a, b) \/ FEq(a, b)
FGt(a, b) == FLt(b, a)
FGe(a, b) == FLe(b, a)

\* Math.max(a, b), Math.min(a, b)
MathMax(a, b) ==
    IF a.k = "nan" \/ b.k = "nan" THEN NaN
    ELSE IF FLt(a, b) THEN b ELSE a
MathMin(a, b) ==
    IF a.k = "nan" \/ b.k = "nan" THEN NaN
    ELSE IF FLt(b, a) THEN b ELSE a

\* Number.isFinite(a)
IsFinite(a) == a.k = "fin"

\* the largest finite number (1e308 in the program's terms)
Huge == Fin(MaxFinite)

NonFinite == {NaN, PosInf, NegInf}

\* Math.PI
PI == Fin(3142)

\* Math.tan(x), x in radians: tabulated on the arguments the model's angles
\* give (half-angles 0, 30, 45, 60, 100 and 135 degrees and their negatives;
\* the tangent is odd); the tangent of a non-finite argument is NaN
MathTan(x) ==
    IF x.k # "fin" THEN NaN
    ELSE LET a == Abs(x.v)
             t == CASE a = 0    -> 0
                    [] a = 523  -> 577
                    [] a = 785  -> 1000
                    [] a = 1047 -> 1732
                    [] a = 1745 -> -5671
                    [] a = 2356 -> -1000
         IN  Fin(Sgn(x.v) * t)

(***************************************************************************)
(* src/rules/cameraFootprint.ts                                            *)
(***************************************************************************)
\* a conversion that turns the angle the other way
toRadiansReversed(degrees) == FDiv(FMul(FNeg(degrees), PI), Fin(180 * Unit))

toRadians(degrees) == FDiv(FMul(degrees, PI), Fin(180 * Unit))

\* a safeValue that lets non-finite values through
safeValueKeep(value) == value

safeValue(value) == IF IsFinite(value) THEN value ELSE Fin(0)

\* a calcFootprint that projects along the longer of height and range
calcFootprintMaxD(params) ==
    LET cameraHeight == MathMax(Fin(0), safeValue(params.cameraHeight))
        rangeMax == MathMax(Fin(0), safeValue(params.rangeMax))
        d == MathMax(Fin(0), MathMax(cameraHeight, rangeMax))
    IN  [width |-> Fin(0), depth |-> Fin(0), area |-> Fin(0), d |-> d]

calcFootprint(params) ==
    LET cameraHeight == MathMax(Fin(0), safeValue(params.cameraHeight))
        rangeMax == MathMax(Fin(0), safeValue(params.rangeMax))
        hfovDeg == safeValue(params.hfovDeg)
        vfovDeg == safeValue(params.vfovDeg)
        d == MathMax(Fin(0), MathMin(cameraHeight, rangeMax))
        width == MathMax(Fin(0),
                   FMul(FMul(Fin(2 * Unit), d),
                        MathTan(toRadians(FDiv(hfovDeg, Fin(2 * Unit))))))
        depth == MathMax(Fin(0),
                   FMul(FMul(Fin(2 * Unit), d),
                        MathTan(toRadians(FDiv(vfovDeg, Fin(2 * Unit))))))
    IN  [width |-> width,
         depth |-> depth,
         area |-> MathMax(Fin(0), FMul(width, depth)),
         d |-> d]


(***************************************************************************)
(* src/rules/aviotec.ts                                                    *)
(***************************************************************************)
Row(h, f, s) ==
    [height |-> Fin(h * Unit), flameDistance |-> Fin(f * Unit),
     smokeDistance |-> Fin(s * Unit)]

HEIGHT_LOOKUP ==
    << Row(2, 4, 3), Row(5, 9, 7), Row(10, 16, 12), Row(15, 22, 17),
       Row(20, 27, 21), Row(25, 31, 24), Row(30, 34, 26) >>

FLAME_REFERENCE_WIDTH == Fin(500)
SMOKE_REFERENCE_WIDTH == Fin(750)

clamp(value, min, max) == MathMin(MathMax(value, min), max)

\* an interpolate whose ratio divides by the upper height, not by the span
interpolateOverUpper(value, min, max) ==
    LET ratio == FDiv(FSub(value, min.height), max.height)
    IN  [flame |-> FAdd(min.flameDistance,
                        FMul(ratio, FSub(max.flameDistance, min.flameDistance))),
         smoke |-> FAdd(min.smokeDistance,
                        FMul(ratio, FSub(max.smokeDistance, min.smokeDistance)))]

interpolate(value, min, max) ==
    IF FEq(min.height, max.height)
    THEN [flame |-> min.flameDistance, smoke |-> min.smokeDistance]
    ELSE LET ratio == FDiv(FSub(value, min.height), FSub(max.height, min.height))
         IN  [flame |-> FAdd(min.flameDistance,
                             FMul(ratio, FSub(max.flameDistance, min.flameDistance))),
              smoke |-> FAdd(min.smokeDistance,
                             FMul(ratio, FSub(max.smokeDistance, min.smokeDistance)))]

\* HEIGHT_LOOKUP.findIndex((row) => clamped <= row.height): the 0-based index
\* of the first such row, -1 when there is none
findIndex(clamped) ==
    LET hits == {i \in 1..Len(HEIGHT_LOOKUP) : FLe(clamped, HEIGHT_LOOKUP[i].height)}
    IN  IF hits = {} THEN -1
        ELSE (CHOOSE i \in hits : \A j \in hits : i <= j) - 1

\* a lookupBaseDistances that does not clamp the height to the table's span
lookupBaseDistancesUnclamped(mountingHeight) ==
    LET lowerIndex == findIndex(mountingHeight)
    IN  IF lowerIndex <= 0
        THEN [flame |-> HEIGHT_LOOKUP[1].flameDistance,
              smoke |-> HEIGHT_LOOKUP[1].smokeDistance]
        ELSE interpolate(mountingHeight, HEIGHT_LOOKUP[lowerIndex],
                         HEIGHT_LOOKUP[lowerIndex + 1])

lookupBaseDistances(mountingHeight) ==
    LET clamped == clamp(mountingHeight, HEIGHT_LOOKUP[1].height,
                         HEIGHT_LOOKUP[Len(HEIGHT_LOOKUP)].height)
        lowerIndex == findIndex(clamped)
    IN  IF lowerIndex <= 0
        THEN [flame |-> HEIGHT_LOOKUP[1].flameDistance,
              smoke |-> HEIGHT_LOOKUP[1].smokeDistance]
        ELSE interpolate(clamped, HEIGHT_LOOKUP[lowerIndex],
                         HEIGHT_LOOKUP[lowerIndex + 1])

HeightWarning == "Mounting height should be between 0 and 30 meters."
AngleWarning == "Opening angle should be between 0 and 120 degrees."
FocalWarning == "Focal length must be greater than 0 mm."
WidthWarning == "Minimum target widths must be greater than 0 meters."

\* a validate that stops at the first violation
validateFirstOnly(given) ==
    IF FLe(given.mountingHeightMeters, Fin(0))
       \/ FGt(given.mountingHeightMeters, Fin(30 * Unit))
    THEN <<HeightWarning>>
    ELSE IF FLe(given.openingAngleDeg, Fin(0))
            \/ FGt(given.openingAngleDeg, Fin(120 * Unit))
    THEN <<AngleWarning>>
    ELSE IF FLe(given.focalLengthMm, Fin(0))
    THEN <<FocalWarning>>
    ELSE IF FLe(given.minFlameWidthMeters, Fin(0))
            \/ FLe(given.minSmokeWidthMeters, Fin(0))
    THEN <<WidthWarning>>
    ELSE <<>>

\* the warnings array after the four checks of lines 56-67
validate(given) ==
    LET w1 == IF FLe(given.mountingHeightMeters, Fin(0))
                 \/ FGt(given.mountingHeightMeters, Fin(30 * Unit))
              THEN <<HeightWarning>> ELSE <<>>
        w2 == IF FLe(given.openingAngleDeg, Fin(0))
                 \/ FGt(given.openingAngleDeg, Fin(120 * Unit))
              THEN Append(w1, AngleWarning) ELSE w1
        w3 == IF FLe(given.focalLengthMm, Fin(0))
              THEN Append(w2, FocalWarning) ELSE w2
        w4 == IF FLe(given.minFlameWidthMeters, Fin(0))
                 \/ FLe(given.minSmokeWidthMeters, Fin(0))
              THEN Append(w3, WidthWarning) ELSE w3
    IN  w4

\* a scale that divides the reference width by the minimum width
widthScaleInverted(minWidth, reference) ==
    IF FGt(minWidth, Fin(0)) THEN FDiv(reference, minWidth) ELSE Fin(0)

\* a scale without the minWidth > 0 guard
widthScaleUnguarded(minWidth, reference) == FDiv(minWidth, reference)

\* flameScale / smokeScale (lines 71-78)
widthScale(minWidth, reference) ==
    IF FGt(minWidth, Fin(0)) THEN FDiv(minWidth, reference) ELSE Fin(0)

calculateAviotec(given) ==
    LET warnings == validate(given)
        base == lookupBaseDistances(given.mountingHeightMeters)
        flameScale == widthScale(given.minFlameWidthMeters, FLAME_REFERENCE_WIDTH)
        smokeScale == widthScale(given.minSmokeWidthMeters, SMOKE_REFERENCE_WIDTH)
    IN  [flameMaxDistanceMeters |-> MathMax(Fin(0), FMul(base.flame, flameScale)),
         smokeMaxDistanceMeters |-> MathMax(Fin(0), FMul(base.smoke, smokeScale)),
         warnings |-> warnings]


(***************************************************************************)
(* three.js vectors, as src/views/Mode3DParam/Mode3DParam.tsx uses them    *)
(***************************************************************************)
Vec(x, y, z) == <<Fin(x), Fin(y), Fin(z)>>

\* Vector3.add
VecAdd(a, b) == <<FAdd(a[1], b[1]), FAdd(a[2], b[2]), FAdd(a[3], b[3])>>

\* Vector3.multiplyScalar
VecScale(a, s) == <<FMul(a[1], s), FMul(a[2], s), FMul(a[3], s)>>

\* Vector3.dot
Dot(a, b) == FAdd(FAdd(FMul(a[1], b[1]), FMul(a[2], b[2])), FMul(a[3], b[3]))

RECURSIVE SqrtDown(_, _)
\* the integer square root of n, by Newton's iteration from x >= sqrt(n)
SqrtDown(n, x) ==
    LET y == (x + n \div x) \div 2
    IN  IF y >= x THEN x ELSE SqrtDown(n, y)

\* Math.sqrt
MathSqrt(a) ==
    IF a.k = "nan" THEN NaN
    ELSE IF a.k = "inf" THEN (IF a.v > 0 THEN a ELSE NaN)
    ELSE IF a.v < 0 THEN NaN
    ELSE IF a.v = 0 THEN Fin(0)
    ELSE Fin(SqrtDown(a.v * Unit, (Unit + a.v) \div 2 + 1))

\* Vector3.normalize: divideScalar(length() || 1)
VecNormalize(a) ==
    LET length == MathSqrt(Dot(a, a))
        divisor == IF length.k = "nan" \/ length = Fin(0) THEN Fin(Unit) ELSE length
    IN  <<FDiv(a[1], divisor), FDiv(a[2], divisor), FDiv(a[3], divisor)>>

(***************************************************************************)
(* src/views/Mode3DParam/Mode3DParam.tsx                                   *)
(***************************************************************************)
DEFAULT_INPUTS ==
    [roomLength |-> Fin(20000), roomWidth |-> Fin(12000), roomHeight |-> Fin(4000),
     wallThickness |-> Fin(200), cameraHeight |-> Fin(3500), hfovDeg |-> Fin(90000),
     vfovDeg |-> Fin(60000), rangeMax |-> Fin(30000)]

\* toSafeNumber, applied to Number(value)
toSafeNumber(parsed) == IF IsFinite(parsed) THEN parsed ELSE Fin(0)

\* null, for cameraPlacement, aimHit and aimHitRef.current
Null == [kind |-> "null"]

AimHit(point, normal) == [kind |-> "hit", point |-> point, normal |-> normal]

CameraPlacement(position, normal) ==
    [kind |-> "placed", position |-> position, normal |-> normal]

\* the wall meshes of Room, wallMeshesRef.current[0..3]: centre and box size
WallMesh(index, in) ==
    LET innerWidth == MathMax(Fin(100),
                              FSub(in.roomWidth, FMul(in.wallThickness, Fin(2 * Unit))))
        half(a) == FDiv(a, Fin(2 * Unit))
    IN  CASE index = 0 ->
               [position |-> <<half(in.roomLength), half(in.roomHeight),
                               half(in.wallThickness)>>,
                size |-> <<in.roomLength, in.roomHeight, in.wallThickness>>]
          [] index = 1 ->
               [position |-> <<half(in.roomLength), half(in.roomHeight),
                               FSub(in.roomWidth, half(in.wallThickness))>>,
                size |-> <<in.roomLength, in.roomHeight, in.wallThickness>>]
          [] index = 2 ->
               [position |-> <<half(in.wallThickness), half(in.roomHeight),
                               half(in.roomWidth)>>,
                size |-> <<in.wallThickness, in.roomHeight, innerWidth>>]
          [] index = 3 ->
               [position |-> <<FSub(in.roomLength, half(in.wallThickness)),
                               half(in.roomHeight), half(in.roomWidth)>>,
                size |-> <<in.wallThickness, in.roomHeight, innerWidth>>]

\* Math.abs
MathAbs(a) == IF a.k = "nan" THEN NaN ELSE [k |-> a.k, v |-> Abs(a.v)]

\* a clamp that applies the upper bound first
clampParamLowerLast(value, min, max) == MathMax(MathMin(value, max), min)

\* the clamp of Mode3DParam.tsx (lines 46-47), the same function as in aviotec.ts
clampParam(value, min, max) == MathMin(MathMax(value, min), max)

\* the directions the camera is given: level toward wall 0 (low z) and level
\* toward wall 3 (high x), as unit vectors
Directions == { Vec(0, 0, -1000), Vec(1000, 0, 0) }

\* largest rise of the camera above eye height, in thousandths
MaxShift == 2

\* camera.position when a ray is cast: MovementControls has clamped it in the
\* same frame (lines 202-207); the camera stands at mid-room at eye height 1.6
\* (line 211) or up to MaxShift above it
CameraPositions(in) ==
    { <<clampParam(FDiv(in.roomLength, Fin(2 * Unit)), in.wallThickness,
                   FSub(in.roomLength, in.wallThickness)),
        clampParam(Fin(1600 + shift), Fin(500), FSub(in.roomHeight, Fin(200))),
        clampParam(FDiv(in.roomWidth, Fin(2 * Unit)), in.wallThickness,
                   FSub(in.roomWidth, in.wallThickness))>> : shift \in 0..MaxShift }

\* the axis an axis-aligned direction runs along, and its sense
RayAxis(direction) == CHOOSE a \in 1..3 : direction[a] # Fin(0)

RaySense(direction) == Sgn(direction[RayAxis(direction)].v)

\* the normal of the face of a box on the given axis and side
FaceNormal(axis, side) ==
    <<Fin(IF axis = 1 THEN side * Unit ELSE 0),
      Fin(IF axis = 2 THEN side * Unit ELSE 0),
      Fin(IF axis = 3 THEN side * Unit ELSE 0)>>

\* Triangle.getNormal of a face of a BoxGeometry: outward, or inward when an
\* odd number of the box's sizes is negative (the triangles are mirrored)
Winding(mesh) ==
    IF Cardinality({j \in 1..3 : FLt(mesh.size[j], Fin(0))}) % 2 = 1 THEN -1 ELSE 1

\* half the extent of the box along an axis
HalfExtent(mesh, j) == FDiv(MathAbs(mesh.size[j]), Fin(2 * Unit))

\* the face of wall w across the ray's axis on the given side, as the ray from
\* the camera position meets it: the point, the face normal, the distance and
\* whether the ray crosses the face ("sure": ahead and inside its outline),
\* grazes it ("edge": on its plane or on its outline) or misses it
FaceMet(origin, direction, w, side, in) ==
    LET mesh == WallMesh(w, in)
        axis == RayAxis(direction)
        across == (1..3) \ {axis}
        plane == FAdd(mesh.position[axis],
                      FMul(Fin(side * Unit), HalfExtent(mesh, axis)))
        distance == FMul(FSub(plane, origin[axis]), Fin(RaySense(direction) * Unit))
        offCentre(j) == MathAbs(FSub(origin[j], mesh.position[j]))
        hasArea == \A j \in across : mesh.size[j] # Fin(0)
        inside == \A j \in across : FLt(offCentre(j), HalfExtent(mesh, j))
        within == \A j \in across : FLe(offCentre(j), HalfExtent(mesh, j))
    IN  [point |-> [origin EXCEPT ![axis] = plane],
         faceNormal |-> FaceNormal(axis, side * Winding(mesh)),
         distance |-> distance,
         met |-> IF hasArea /\ inside /\ FGt(distance, Fin(0)) THEN "sure"
                 ELSE IF hasArea /\ within /\ FGe(distance, Fin(0)) THEN "edge"
                 ELSE "no"]

\* Raycaster.intersectObjects(wallMeshes, false)[0] for a ray from the camera
\* along the given direction: nothing (the floor, the ceiling and the sky are
\* not among the wall meshes), or the nearest face the ray crosses, or a face
\* it grazes no farther away, where rounding decides.  The wall material is
\* DoubleSide, so a face is met from either side.
Intersections(direction, in) ==
    LET faces == { FaceMet(origin, direction, w, side, in) :
                     origin \in CameraPositions(in), w \in 0..3, side \in {-1, 1} }
        sure == { f \in faces : f.met = "sure" }
        nearest == { f \in sure : \A g \in sure :
                        g.point[2] = f.point[2] => FLe(f.distance, g.distance) }
        grazed == { f \in faces :
                      /\ f.met = "edge"
                      /\ \A g \in sure :
                            g.point[2] = f.point[2] => FLe(f.distance, g.distance) }
    IN  {Null} \cup
        { [kind |-> "face", point |-> f.point, faceNormal |-> f.faceNormal] :
            f \in nearest \cup grazed }

\* worldNormal of lines 295-296: the wall meshes are only translated, so the
\* normal matrix of matrixWorld is the identity
WorldNormal(hit) == VecNormalize(hit.faceNormal)

\* an AimRaycaster that flips the normal when it faces the ray
AimRaycastFlipFacing(direction, hit) ==
    IF hit = Null THEN Null
    ELSE LET worldNormal == WorldNormal(hit)
         IN  AimHit(hit.point,
                    IF FLt(Dot(worldNormal, direction), Fin(0))
                    THEN VecScale(worldNormal, Fin(-Unit))
                    ELSE worldNormal)

\* the argument AimRaycaster passes to onAimHit (lines 288-305)
AimRaycast(direction, hit) ==
    IF hit = Null THEN Null
    ELSE LET worldNormal == WorldNormal(hit)
         IN  AimHit(hit.point,
                    IF FGt(Dot(worldNormal, direction), Fin(0))
                    THEN VecScale(worldNormal, Fin(-Unit))
                    ELSE worldNormal)

\* hasChanged of handleAimHit (lines 401-403)
hasChanged(previous, nextHit) ==
    \/ previous = Null
    \/ \E i \in 1..3 :
          FGt(MathAbs(FSub(previous.point[i], nextHit.point[i])), Fin(1))
    \/ \E i \in 1..3 :
          FGt(MathAbs(FSub(previous.normal[i], nextHit.normal[i])), Fin(1))

\* a handleAimHit that keeps the last hit when the ray misses
handleAimHitKeepLast(ref, shown, nextHit) ==
    IF nextHit = Null
    THEN [ref |-> ref, shown |-> shown]
    ELSE [ref |-> nextHit,
          shown |-> IF hasChanged(ref, nextHit) THEN nextHit ELSE shown]

\* aimHitRef.current and aimHit after handleAimHit(nextHit) (lines 390-408)
handleAimHit(ref, shown, nextHit) ==
    IF nextHit = Null
    THEN [ref |-> Null, shown |-> IF ref # Null THEN Null ELSE shown]
    ELSE [ref |-> nextHit,
          shown |-> IF hasChanged(ref, nextHit) THEN nextHit ELSE shown]

\* the position needs no move by the bounds effect at the current height
InsideRoom(position, in) ==
    /\ FLe(in.wallThickness, position[1])
    /\ FLe(position[1], FSub(in.roomLength, in.wallThickness))
    /\ FEq(position[2], in.cameraHeight)
    /\ FLe(in.wallThickness, position[3])
    /\ FLe(position[3], FSub(in.roomWidth, in.wallThickness))

\* a bounds effect that drops a placement it would have to move
ClampEffectDiscard(prev, in) ==
    IF prev = Null THEN prev
    ELSE IF InsideRoom(prev.position, in) THEN prev ELSE Null

\* the updater of the bounds effect (lines 325-336)
ClampEffect(prev, in) ==
    IF prev = Null THEN prev
    ELSE LET nextPosition ==
                 <<clampParam(prev.position[1], in.wallThickness,
                              FSub(in.roomLength, in.wallThickness)),
                   clampParam(in.cameraHeight, Fin(0), in.roomHeight),
                   clampParam(prev.position[3], in.wallThickness,
                              FSub(in.roomWidth, in.wallThickness))>>
             isSame == \A i \in 1..3 : FEq(prev.position[i], nextPosition[i])
         IN  IF isSame THEN prev ELSE CameraPlacement(nextPosition, prev.normal)

\* the dependencies of the bounds effect (line 337)
ClampDeps == {"cameraHeight", "roomHeight", "roomLength", "roomWidth", "wallThickness"}

\* the placement after the render that follows a change of inputs: the bounds
\* effect runs when one of its dependencies changed
AfterRender(placement, before, after) ==
    IF \E key \in ClampDeps : after[key] # before[key]
    THEN ClampEffect(placement, after)
    ELSE placement

\* the numbers typed into the input fields, as Number(event.target.value)
Typed ==
    [roomLength |-> {Fin(30000), NaN}, roomHeight |-> {Fin(-1000)},
     wallThickness |-> {Fin(8000)}, cameraHeight |-> {Fin(10000), Fin(1000)}]

\* number of edits of input fields in a run
MaxEdits == 1

UiInit ==
    /\ inputs = DEFAULT_INPUTS
    /\ cameraPlacement = Null
    /\ aimHit = Null
    /\ aimHitRef = Null
    /\ isEditing = FALSE
    /\ isEditingRef = FALSE
    /\ cast = Null
    /\ placedDirection = Null
    /\ edits = 0
    /\ keyE = "none"

\* handleChange(key) (lines 410-415) and the render after it
HandleChange ==
    /\ edits < MaxEdits
    /\ \E key \in DOMAIN Typed : \E parsed \in Typed[key] :
          /\ inputs' = [inputs EXCEPT ![key] = toSafeNumber(parsed)]
          /\ cameraPlacement' = AfterRender(cameraPlacement, inputs, inputs')
    /\ edits' = edits + 1
    /\ keyE' = "none"
    /\ UNCHANGED <<aimHit, aimHitRef, isEditing, isEditingRef, cast, placedDirection>>

\* onPointerLockChange = setIsEditing (line 673) and the effects of lines
\* 320-322 and 372-377; AimRaycaster is unmounted when editing ends (line 665)
PointerLockChange ==
    /\ isEditing' = ~isEditing
    /\ isEditingRef' = isEditing'
    /\ IF isEditing'
       THEN UNCHANGED <<aimHit, aimHitRef, cast>>
       ELSE aimHitRef' = Null /\ aimHit' = Null /\ cast' = Null
    /\ keyE' = "none"
    /\ UNCHANGED <<inputs, cameraPlacement, placedDirection, edits>>

\* one ray cast of AimRaycaster (lines 276-306), mounted while editing
\* (line 665), with its call of handleAimHit
Frame ==
    /\ isEditing
    /\ \E direction \in Directions : \E hit \in Intersections(direction, inputs) :
        \E nextHit \in {AimRaycast(direction, hit)} :
        \E after \in {handleAimHit(aimHitRef, aimHit, nextHit)} :
          /\ cast' = IF hit = Null
                     THEN [kind |-> "miss", direction |-> direction]
                     ELSE [kind |-> "hit", direction |-> direction,
                           surfaceNormal |-> WorldNormal(hit),
                           result |-> nextHit]
          /\ aimHitRef' = after.ref
          /\ aimHit' = after.shown
    /\ keyE' = "none"
    /\ UNCHANGED <<inputs, cameraPlacement, isEditing, isEditingRef,
                   placedDirection, edits>>

\* a placement with no clearance from the surface
offsetPositionOnSurface(hit) == hit.point

\* offsetPosition of handleKeyDown (lines 347-349)
offsetPosition(hit) == VecAdd(hit.point, VecScale(hit.normal, Fin(50)))

\* ghostPosition (lines 426-434)
ghostPosition(shown) ==
    IF shown = Null THEN Null
    ELSE LET offset == VecAdd(shown.point, VecScale(shown.normal, Fin(50)))
         IN  <<offset[1], offset[2], offset[3]>>

\* handleKeyDown for a first press of KeyE (lines 340-363) and the render
\* after it
Confirm ==
    /\ IF isEditingRef /\ aimHitRef # Null
       THEN /\ \E offset \in {offsetPosition(aimHitRef)} :
                 /\ inputs' = [inputs EXCEPT !.cameraHeight = offset[2]]
                 /\ cameraPlacement' =
                       AfterRender(CameraPlacement(offset, aimHitRef.normal),
                                   inputs, inputs')
            /\ placedDirection' = cast.direction
            /\ keyE' = "placed"
       ELSE /\ keyE' = "ignored"
            /\ UNCHANGED <<inputs, cameraPlacement, placedDirection>>
    /\ UNCHANGED <<aimHit, aimHitRef, isEditing, isEditingRef, cast, edits>>

UiIdle ==
    /\ inputs = DEFAULT_INPUTS
    /\ cameraPlacement = Null
    /\ aimHit = Null
    /\ aimHitRef = Null
    /\ isEditing = FALSE
    /\ isEditingRef = FALSE
    /\ cast = Null
    /\ placedDirection = Null
    /\ edits = 0
    /\ keyE = "none"

(***************************************************************************)
(* Calls of calculateAviotec.  A field missing from the argument (Mode2D   *)
(* passes {mode, seed}) reads as undefined, which every comparison and     *)
(* Math function of this code treats as NaN.                               *)
(***************************************************************************)
MountingHeights ==
    NonFinite \cup
    {Fin(-1000), Fin(0), Fin(1000), Fin(2000), Fin(3500), Fin(5000),
     Fin(10000), Fin(12500), Fin(15000), Fin(20000), Fin(25000), Fin(30000),
     Fin(35000)}

OpeningAngles == {NaN, Fin(0), Fin(48500), Fin(130000)}

FocalLengths == {NaN, Fin(0), Fin(6000)}

FlameWidths ==
    NonFinite \cup {Fin(-500), Fin(0), Fin(250), Fin(500), Fin(1000), Huge}

SmokeWidths == {NaN, PosInf, Fin(-750), Fin(0), Fin(750), Fin(1500)}

AviotecInputs ==
    [mountingHeightMeters : MountingHeights, openingAngleDeg : OpeningAngles,
     focalLengthMm : FocalLengths, minFlameWidthMeters : FlameWidths,
     minSmokeWidthMeters : SmokeWidths]

NoBase == [flame |-> Fin(0), smoke |-> Fin(0)]

NoOutputs ==
    [flameMaxDistanceMeters |-> Fin(0), smokeMaxDistanceMeters |-> Fin(0),
     warnings |-> <<>>]

AviotecInit ==
    /\ avInputs \in AviotecInputs
    /\ avBase = NoBase
    /\ avOutputs = NoOutputs
    /\ avDone = FALSE

AviotecCall ==
    /\ ~avDone
    /\ avBase' = lookupBaseDistances(avInputs.mountingHeightMeters)
    /\ avOutputs' = calculateAviotec(avInputs)
    /\ avDone' = TRUE
    /\ UNCHANGED avInputs

(***************************************************************************)
(* Calls of calcFootprint: the parameters are any numbers a caller can     *)
(* pass; FootprintCall applies the function.                               *)
(***************************************************************************)
HeightValues == NonFinite \cup {Fin(-1000), Fin(0), Fin(3500), Fin(5000), Huge}

RangeValues == NonFinite \cup {Fin(-1000), Fin(0), Fin(3500), Fin(30000), Huge}

AngleValues == NonFinite \cup
    {Fin(-90000), Fin(0), Fin(60000), Fin(90000), Fin(120000), Fin(200000), Fin(270000)}

FovParams ==
    [cameraHeight : HeightValues, rangeMax : RangeValues,
     hfovDeg : AngleValues, vfovDeg : AngleValues]

NoFootprint == [width |-> Fin(0), depth |-> Fin(0), area |-> Fin(0), d |-> Fin(0)]

FootprintInit ==
    /\ fpParams \in FovParams
    /\ fpResult = NoFootprint
    /\ fpDone = FALSE

\* the state of a part of the program that a specification leaves idle
FootprintIdle ==
    /\ fpParams = [cameraHeight |-> Fin(0), rangeMax |-> Fin(0),
                   hfovDeg |-> Fin(0), vfovDeg |-> Fin(0)]
    /\ fpResult = NoFootprint
    /\ fpDone = TRUE

AviotecIdle ==
    /\ avInputs = [mountingHeightMeters |-> Fin(0), openingAngleDeg |-> Fin(0),
                   focalLengthMm |-> Fin(0), minFlameWidthMeters |-> Fin(0),
                   minSmokeWidthMeters |-> Fin(0)]
    /\ avBase = NoBase
    /\ avOutputs = NoOutputs
    /\ avDone = TRUE

FootprintCall ==
    /\ ~fpDone
    /\ fpResult' = calcFootprint(fpParams)
    /\ fpDone' = TRUE
    /\ UNCHANGED fpParams

(***************************************************************************)
(* A render of Mode3DParam for any inputs state: the fields hold what       *)
(* toSafeNumber returns, that is any finite number.                        *)
(***************************************************************************)
RenderedInputs ==
    [roomLength : {Fin(-1000), Fin(0), Fin(50), Fin(100), Fin(5000), Fin(20000), Huge},
     roomWidth : {Fin(0), Fin(50), Fin(12000)},
     roomHeight : {Fin(4000)},
     wallThickness : {Fin(200)},
     cameraHeight : {Fin(0), Fin(3500), Huge},
     hfovDeg : {Fin(0), Fin(90000), Fin(200000)},
     vfovDeg : {Fin(0), Fin(60000)},
     rangeMax : {Fin(0), Fin(30000), Huge}]

\* a render that draws the footprint's own area
DisplayedFootprintArea(in) ==
    LET footprint == calcFootprint([cameraHeight |-> in.cameraHeight,
                                    rangeMax |-> in.rangeMax,
                                    hfovDeg |-> in.hfovDeg,
                                    vfovDeg |-> in.vfovDeg])
        clampedWidth == clampParam(footprint.width, Fin(100), in.roomLength)
        clampedDepth == clampParam(footprint.depth, Fin(100), in.roomWidth)
    IN  [footprint |-> footprint, clampedWidth |-> clampedWidth,
         clampedDepth |-> clampedDepth, clampedArea |-> footprint.area]

\* footprint, clampedWidth, clampedDepth and clampedArea of a render
\* (lines 379-388)
Displayed(in) ==
    LET footprint == calcFootprint([cameraHeight |-> in.cameraHeight,
                                    rangeMax |-> in.rangeMax,
                                    hfovDeg |-> in.hfovDeg,
                                    vfovDeg |-> in.vfovDeg])
        clampedWidth == clampParam(footprint.width, Fin(100), in.roomLength)
        clampedDepth == clampParam(footprint.depth, Fin(100), in.roomWidth)
    IN  [footprint |-> footprint, clampedWidth |-> clampedWidth,
         clampedDepth |-> clampedDepth,
         clampedArea |-> FMul(clampedWidth, clampedDepth)]

NoCoverage ==
    [footprint |-> NoFootprint, clampedWidth |-> Fin(0), clampedDepth |-> Fin(0),
     clampedArea |-> Fin(0)]

CoverageInit ==
    /\ cvInputs \in RenderedInputs
    /\ coverage = NoCoverage
    /\ cvDone = FALSE

CoverageIdle ==
    /\ cvInputs = DEFAULT_INPUTS
    /\ coverage = NoCoverage
    /\ cvDone = TRUE

CoverageRender ==
    /\ ~cvDone
    /\ coverage' = Displayed(cvInputs)
    /\ cvDone' = TRUE
    /\ UNCHANGED cvInputs

CoverageNext == CoverageRender /\ UNCHANGED <<fpVars, avVars, uiVars>>

InitCoverage == CoverageInit /\ FootprintIdle /\ AviotecIdle /\ UiIdle

SpecCoverage == InitCoverage /\ [][CoverageNext]_vars

FootprintNext == FootprintCall /\ UNCHANGED <<avVars, uiVars, cvVars>>

InitFootprint == FootprintInit /\ AviotecIdle /\ UiIdle /\ CoverageIdle

SpecFootprint == InitFootprint /\ [][FootprintNext]_vars

AviotecNext == AviotecCall /\ UNCHANGED <<fpVars, uiVars, cvVars>>

InitAviotec == AviotecInit /\ FootprintIdle /\ UiIdle /\ CoverageIdle

SpecAviotec == InitAviotec /\ [][AviotecNext]_vars

Init == UiInit /\ FootprintIdle /\ AviotecIdle /\ CoverageIdle

Next ==
    \/ HandleChange /\ UNCHANGED <<fpVars, avVars, cvVars>>
    \/ PointerLockChange /\ UNCHANGED <<fpVars, avVars, cvVars>>
    \/ Frame /\ UNCHANGED <<fpVars, avVars, cvVars>>
    \/ Confirm /\ UNCHANGED <<fpVars, avVars, cvVars>>

Spec == Init /\ [][Next]_vars

\* a record of numbers with every non-finite field replaced by 0
ZeroNonFinite(params) ==
    [f \in DOMAIN params |-> IF IsFinite(params[f]) THEN params[f] ELSE Fin(0)]

(***************************************************************************)
(* Claims about calcFootprint                                              *)
(***************************************************************************)
\* C1: for every input the returned area equals the returned width times the
\* returned depth, and width, depth and area are all >= 0.
C1_AreaIsProductNonNegative ==
    fpDone =>
        /\ FEq(fpResult.area, FMul(fpResult.width, fpResult.depth))
        /\ FGe(fpResult.width, Fin(0))
        /\ FGe(fpResult.depth, Fin(0))
        /\ FGe(fpResult.area, Fin(0))

\* C2 as stated: for every input d equals max(0, min(mountingHeight, rangeMax))
\* and d <= rangeMax and d <= mountingHeight on the caller's own values.
C2_Original ==
    fpDone =>
        /\ FEq(fpResult.d,
               MathMax(Fin(0), MathMin(fpParams.cameraHeight, fpParams.rangeMax)))
        /\ FLe(fpResult.d, fpParams.rangeMax)
        /\ FLe(fpResult.d, fpParams.cameraHeight)

\* C2 amended: when mounting height and range are both finite, d equals
\* max(0, min(mountingHeight, rangeMax)); d <= mountingHeight whenever
\* mountingHeight >= 0, and d <= rangeMax whenever rangeMax >= 0.
C2_ProjectionDistance ==
    fpDone =>
        /\ (IsFinite(fpParams.cameraHeight) /\ IsFinite(fpParams.rangeMax)
              => FEq(fpResult.d,
                     MathMax(Fin(0),
                             MathMin(fpParams.cameraHeight, fpParams.rangeMax))))
        /\ (FGe(fpParams.cameraHeight, Fin(0))
              => FLe(fpResult.d, fpParams.cameraHeight))
        /\ (FGe(fpParams.rangeMax, Fin(0))
              => FLe(fpResult.d, fpParams.rangeMax))

\* a call with a mounting height below the range: d is the mounting height
C2_Witness ==
    /\ fpDone
    /\ fpParams.cameraHeight = Fin(3500)
    /\ fpParams.rangeMax = Fin(30000)
    /\ fpResult.d = Fin(3500)

\* C8: the result for an input with non-finite fields is the result for the
\* same input with each non-finite field replaced by 0; and when no finite
\* length is at the overflow threshold, no returned field is NaN or infinite.
C8_NonFiniteSanitized ==
    fpDone =>
        /\ fpResult = calcFootprint(ZeroNonFinite(fpParams))
        /\ (Huge \notin {fpParams.cameraHeight, fpParams.rangeMax}
              => \A f \in DOMAIN fpResult : IsFinite(fpResult[f]))

\* a call whose height is NaN and whose horizontal angle is infinite, with a
\* usable range and vertical angle: the footprint is the one of height 0
C8_Witness ==
    /\ fpDone
    /\ fpParams.cameraHeight = NaN
    /\ fpParams.hfovDeg = PosInf
    /\ fpParams.rangeMax = Fin(30000)
    /\ fpParams.vfovDeg = Fin(60000)
    /\ fpResult = NoFootprint

(***************************************************************************)
(* Claims about calculateAviotec                                           *)
(***************************************************************************)
AtReferenceWidths ==
    /\ avInputs.minFlameWidthMeters = FLAME_REFERENCE_WIDTH
    /\ avInputs.minSmokeWidthMeters = SMOKE_REFERENCE_WIDTH

\* C3: at a mounting height equal to a calibration row's height, with the
\* reference widths 0.5 and 0.75, the returned flame and smoke distances are
\* exactly that row's flameDistance and smokeDistance.
C3_CalibrationRowsExact ==
    (avDone /\ AtReferenceWidths) =>
        \A i \in 1..Len(HEIGHT_LOOKUP) :
            avInputs.mountingHeightMeters = HEIGHT_LOOKUP[i].height =>
                /\ avOutputs.flameMaxDistanceMeters = HEIGHT_LOOKUP[i].flameDistance
                /\ avOutputs.smokeMaxDistanceMeters = HEIGHT_LOOKUP[i].smokeDistance

\* the call at height 10 with the reference widths returned flame 16, smoke 12
C3_Witness ==
    /\ avDone
    /\ AtReferenceWidths
    /\ avInputs.mountingHeightMeters = Fin(10000)
    /\ avOutputs.flameMaxDistanceMeters = Fin(16000)
    /\ avOutputs.smokeMaxDistanceMeters = Fin(12000)

Between(x, a, b) == FLe(a, x) /\ FLe(x, b)

\* C4: the lookup never extrapolates: a height >= 30 gives the height-30 row
\* (34, 26), a height <= 2 gives the height-2 row (4, 3), and a height between
\* two adjacent rows gives distances between those rows' values.
C4_NoExtrapolation ==
    avDone =>
        LET h == avInputs.mountingHeightMeters
        IN  /\ (FGe(h, Fin(30000))
                  => avBase = [flame |-> Fin(34000), smoke |-> Fin(26000)])
            /\ (FLe(h, Fin(2000))
                  => avBase = [flame |-> Fin(4000), smoke |-> Fin(3000)])
            /\ \A i \in 1..(Len(HEIGHT_LOOKUP) - 1) :
                  Between(h, HEIGHT_LOOKUP[i].height, HEIGHT_LOOKUP[i + 1].height)
                    => /\ Between(avBase.flame, HEIGHT_LOOKUP[i].flameDistance,
                                  HEIGHT_LOOKUP[i + 1].flameDistance)
                       /\ Between(avBase.smoke, HEIGHT_LOOKUP[i].smokeDistance,
                                  HEIGHT_LOOKUP[i + 1].smokeDistance)

\* the call at height 35 used the height-30 row
C4_Witness ==
    /\ avDone
    /\ avInputs.mountingHeightMeters = Fin(35000)
    /\ avBase = [flame |-> Fin(34000), smoke |-> Fin(26000)]

\* C5: for a fixed mounting height, a larger minimum flame width never gives
\* a smaller flame distance, and a larger minimum smoke width never gives a
\* smaller smoke distance (zero and negative widths included).
C5_MonotonicInWidth ==
    avDone =>
        /\ \A w \in FlameWidths :
              FLe(avInputs.minFlameWidthMeters, w) =>
                FLe(avOutputs.flameMaxDistanceMeters,
                    calculateAviotec([avInputs EXCEPT !.minFlameWidthMeters = w])
                        .flameMaxDistanceMeters)
        /\ \A w \in SmokeWidths :
              FLe(avInputs.minSmokeWidthMeters, w) =>
                FLe(avOutputs.smokeMaxDistanceMeters,
                    calculateAviotec([avInputs EXCEPT !.minSmokeWidthMeters = w])
                        .smokeMaxDistanceMeters)

\* the call at height 10 with flame width 0.25 returned 8, below the 16 and 32
\* that the larger widths 0.5 and 1 give
C5_Witness ==
    /\ avDone
    /\ avInputs.mountingHeightMeters = Fin(10000)
    /\ avInputs.minFlameWidthMeters = Fin(250)
    /\ avOutputs.flameMaxDistanceMeters = Fin(8000)

\* C6: both distances are >= 0 for every input; the flame distance is 0
\* whenever the flame width is <= 0 and the smoke distance is 0 whenever the
\* smoke width is <= 0, whatever the other inputs are.
C6_NonNegativeZeroed ==
    avDone =>
        /\ FGe(avOutputs.flameMaxDistanceMeters, Fin(0))
        /\ FGe(avOutputs.smokeMaxDistanceMeters, Fin(0))
        /\ (FLe(avInputs.minFlameWidthMeters, Fin(0))
              => avOutputs.flameMaxDistanceMeters = Fin(0))
        /\ (FLe(avInputs.minSmokeWidthMeters, Fin(0))
              => avOutputs.smokeMaxDistanceMeters = Fin(0))

\* a call with a negative flame width and the reference smoke width: the flame
\* distance is zeroed, the smoke distance is not
C6_Witness ==
    /\ avDone
    /\ avInputs.mountingHeightMeters = Fin(10000)
    /\ avInputs.minFlameWidthMeters = Fin(-500)
    /\ avInputs.minSmokeWidthMeters = Fin(750)
    /\ avOutputs.flameMaxDistanceMeters = Fin(0)
    /\ avOutputs.smokeMaxDistanceMeters = Fin(12000)

Count(b) == IF b THEN 1 ELSE 0

HeightViolated(given) ==
    FLe(given.mountingHeightMeters, Fin(0))
    \/ FGt(given.mountingHeightMeters, Fin(30000))
AngleViolated(given) ==
    FLe(given.openingAngleDeg, Fin(0)) \/ FGt(given.openingAngleDeg, Fin(120000))
FocalViolated(given) == FLe(given.focalLengthMm, Fin(0))
FlameViolated(given) == FLe(given.minFlameWidthMeters, Fin(0))
SmokeViolated(given) == FLe(given.minSmokeWidthMeters, Fin(0))

\* C7 as stated: five requirements (height, angle, focal length, flame width,
\* smoke width), one warning for each that is violated.
C7_Original ==
    avDone =>
        Len(avOutputs.warnings) =
            Count(HeightViolated(avInputs)) + Count(AngleViolated(avInputs))
            + Count(FocalViolated(avInputs)) + Count(FlameViolated(avInputs))
            + Count(SmokeViolated(avInputs))

\* the warnings of four checks, in order: height, angle, focal length, widths
ExpectedWarnings(given) ==
    LET all == <<HeightWarning, AngleWarning, FocalWarning, WidthWarning>>
        fired == { w \in {HeightWarning, AngleWarning, FocalWarning, WidthWarning} :
                    \/ w = HeightWarning /\ HeightViolated(given)
                    \/ w = AngleWarning /\ AngleViolated(given)
                    \/ w = FocalWarning /\ FocalViolated(given)
                    \/ w = WidthWarning
                       /\ (FlameViolated(given) \/ SmokeViolated(given)) }
        Fired(w) == w \in fired
    IN  SelectSeq(all, Fired)

\* C7 amended: four checks are made without short-circuiting, in this order:
\* mounting height <= 0 or > 30; opening angle <= 0 or > 120; focal length
\* <= 0; flame or smoke minimum width <= 0 (the two widths share one check
\* and one warning).  Each check that fires appends its fixed warning, so the
\* number of warnings is the number of checks that fire, and the distances do
\* not depend on which warnings were emitted.
C7_WarningsCollected ==
    avDone =>
        /\ avOutputs.warnings = ExpectedWarnings(avInputs)
        /\ \A a \in OpeningAngles, f \in FocalLengths :
              LET other == calculateAviotec(
                               [avInputs EXCEPT !.openingAngleDeg = a,
                                                !.focalLengthMm = f])
              IN  /\ other.flameMaxDistanceMeters = avOutputs.flameMaxDistanceMeters
                  /\ other.smokeMaxDistanceMeters = avOutputs.smokeMaxDistanceMeters

\* a call that violates all four checks returned the four warnings and still
\* the smoke distance of height 30
C7_Witness ==
    /\ avDone
    /\ avInputs.mountingHeightMeters = Fin(35000)
    /\ avInputs.openingAngleDeg = Fin(130000)
    /\ avInputs.focalLengthMm = Fin(0)
    /\ avInputs.minFlameWidthMeters = Fin(0)
    /\ avInputs.minSmokeWidthMeters = Fin(750)
    /\ Len(avOutputs.warnings) = 4
    /\ avOutputs.smokeMaxDistanceMeters = Fin(26000)

Has(seq, w) == \E i \in 1..Len(seq) : seq[i] = w

\* C9: a non-finite input of calculateAviotec is normalized to 0: the
\* distances are those computed with 0 in its place, they are not NaN or
\* infinite, and no warning is emitted on account of a non-finite field (no
\* finite width is at the overflow threshold).
C9_NonFiniteNormalized ==
    (avDone /\ avInputs.minFlameWidthMeters # Huge) =>
        LET zeroed == calculateAviotec(ZeroNonFinite(avInputs))
            w == avOutputs.warnings
        IN  /\ avOutputs.flameMaxDistanceMeters = zeroed.flameMaxDistanceMeters
            /\ avOutputs.smokeMaxDistanceMeters = zeroed.smokeMaxDistanceMeters
            /\ IsFinite(avOutputs.flameMaxDistanceMeters)
            /\ IsFinite(avOutputs.smokeMaxDistanceMeters)
            /\ (Has(w, HeightWarning) => IsFinite(avInputs.mountingHeightMeters))
            /\ (Has(w, AngleWarning) => IsFinite(avInputs.openingAngleDeg))
            /\ (Has(w, FocalWarning) => IsFinite(avInputs.focalLengthMm))
            /\ (Has(w, WidthWarning) =>
                  \/ IsFinite(avInputs.minFlameWidthMeters) /\ FlameViolated(avInputs)
                  \/ IsFinite(avInputs.minSmokeWidthMeters) /\ SmokeViolated(avInputs))

(***************************************************************************)
(* Claims about Mode3DParam                                                *)
(***************************************************************************)
IsUnit(n) == Dot(n, n) = Fin(Unit)

\* C10: every aim hit the ray caster produces carries a unit normal with
\* dot(normal, ray direction) <= 0, which is the surface normal negated
\* exactly when dot(surface normal, ray direction) > 0; the hit a confirm
\* uses is the one the last ray cast produced, and every placement carries a
\* unit normal with dot(normal, direction of the ray it was placed from) <= 0.
C10_NormalFacesRay ==
    /\ cast # Null /\ cast.kind = "hit" =>
          /\ IsUnit(cast.result.normal)
          /\ FLe(Dot(cast.result.normal, cast.direction), Fin(0))
          /\ cast.result.normal =
                IF FGt(Dot(cast.surfaceNormal, cast.direction), Fin(0))
                THEN VecScale(cast.surfaceNormal, Fin(-Unit))
                ELSE cast.surfaceNormal
    /\ aimHitRef # Null => cast # Null /\ cast.kind = "hit" /\ aimHitRef = cast.result
    /\ cameraPlacement # Null =>
          /\ IsUnit(cameraPlacement.normal)
          /\ FLe(Dot(cameraPlacement.normal, placedDirection), Fin(0))

\* a placement confirmed from a hit on a face whose normal pointed along the
\* ray: the normal was flipped
C10_Witness ==
    /\ cameraPlacement # Null
    /\ cast # Null
    /\ cast.kind = "hit"
    /\ FGt(Dot(cast.surfaceNormal, cast.direction), Fin(0))
    /\ cameraPlacement.normal = VecScale(cast.surfaceNormal, Fin(-Unit))
    /\ placedDirection = cast.direction

\* the position is inside the bounds the re-clamp uses
InBounds(position, in) ==
    /\ FLe(in.wallThickness, position[1])
    /\ FLe(position[1], FSub(in.roomLength, in.wallThickness))
    /\ FLe(Fin(0), position[2])
    /\ FLe(position[2], in.roomHeight)
    /\ FLe(in.wallThickness, position[3])
    /\ FLe(position[3], FSub(in.roomWidth, in.wallThickness))

\* C11: the bounds re-clamp is a no-op on an in-bounds placement and is
\* idempotent: when an edit of an input field triggers it on a placement that
\* is inside the new bounds, the placement stays identical (same position,
\* same normal), and re-clamping its result again under the same inputs
\* changes nothing.
C11_ReclampNoOpInBounds ==
    [][(edits' # edits /\ cameraPlacement # Null)
          => /\ InBounds(cameraPlacement.position, inputs')
                  => cameraPlacement' = cameraPlacement
             /\ ClampEffect(ClampEffect(cameraPlacement, inputs'), inputs')
                  = ClampEffect(cameraPlacement, inputs')]_vars

\* the bounds effect ran in the step: one of its dependencies changed
ReclampRan == \E key \in ClampDeps : inputs'[key] # inputs[key]

\* C12 as stated: after the bounds re-clamp has run, for any bounds the user
\* can enter, an existing placement satisfies wallThickness <= x <= roomLength
\* - wallThickness, wallThickness <= z <= roomWidth - wallThickness and
\* 0 <= y <= roomHeight.
C12_Original ==
    [][(ReclampRan /\ cameraPlacement' # Null)
          => InBounds(cameraPlacement'.position, inputs')]_vars

\* the coordinate is inside [lo, hi], or is hi when that interval is empty
WithinOrUpper(value, lo, hi) ==
    IF FLe(lo, hi) THEN FLe(lo, value) /\ FLe(value, hi) ELSE value = hi

\* C12: after the bounds re-clamp has run, each coordinate of an existing
\* placement lies inside its interval ([wallThickness, roomLength -
\* wallThickness] for x, [wallThickness, roomWidth - wallThickness] for z,
\* [0, roomHeight] for y) whenever that interval is not empty, and equals the
\* interval's upper bound when it is empty.
C12_ReclampedWithinBounds ==
    [][(ReclampRan /\ cameraPlacement' # Null)
          => LET position == cameraPlacement'.position
                 in == inputs'
             IN  /\ WithinOrUpper(position[1], in.wallThickness,
                                   FSub(in.roomLength, in.wallThickness))
                 /\ WithinOrUpper(position[2], Fin(0), in.roomHeight)
                 /\ WithinOrUpper(position[3], in.wallThickness,
                                   FSub(in.roomWidth, in.wallThickness))]_vars

\* a placement re-clamped after an edit that left the z interval empty
C12_Witness ==
    /\ cameraPlacement # Null
    /\ edits > 0
    /\ keyE = "none"
    /\ FLt(FSub(inputs.roomWidth, inputs.wallThickness), inputs.wallThickness)
    /\ cameraPlacement.position[3] = FSub(inputs.roomWidth, inputs.wallThickness)
    /\ placedDirection = Vec(0, 0, -1000)
    /\ cameraPlacement.normal = Vec(0, 0, 1000)

\* the current aim result is no-hit: no ray was cast, or the last one missed
NoHit == cast = Null \/ cast.kind = "miss"

\* C13: a ray cast that finds no intersection reports an explicit no-hit
\* (aimHitRef.current and aimHit both become null), and a press of KeyE while
\* the current aim result is no-hit is ignored: the placement (position and
\* normal) and the inputs stay as they were.
C13_NoHitLeavesPlacement ==
    /\ [](cast # Null /\ cast.kind = "miss" => aimHitRef = Null /\ aimHit = Null)
    /\ [][(keyE' # "none" /\ NoHit)
            => /\ keyE' = "ignored"
               /\ cameraPlacement' = cameraPlacement
               /\ inputs' = inputs]_vars

\* KeyE was pressed in edit mode after a ray cast that missed, with a
\* placement already there
C13_Witness ==
    /\ keyE = "ignored"
    /\ isEditingRef
    /\ cast # Null
    /\ cast.kind = "miss"
    /\ cameraPlacement # Null

\* C14: the placement starts unset; it becomes set only by a press of KeyE in
\* edit mode with a current aim hit; once set it is never unset again, whatever
\* follows (confirms, ray casts that miss, leaving and entering edit mode,
\* edits of the input fields): later events only replace or clamp it.
C14_PlacementLifecycle ==
    /\ cameraPlacement = Null
    /\ [][(cameraPlacement = Null /\ cameraPlacement' # Null)
            => (keyE' = "placed" /\ isEditingRef /\ aimHitRef # Null)]_vars
    /\ [][cameraPlacement # Null => cameraPlacement' # Null]_vars

\* a placement that outlived leaving edit mode, an edit that moved it and a
\* press of KeyE outside edit mode
C14_Witness ==
    /\ cameraPlacement # Null
    /\ ~isEditing
    /\ aimHitRef = Null
    /\ edits > 0
    /\ keyE = "ignored"
    /\ cameraPlacement.position[2] = Fin(Unit)

(***************************************************************************)
(* Claims about the coverage drawn by Mode3DParam                          *)
(***************************************************************************)
\* C15 as stated: for every footprint and every room the displayed width is
\* in [0.1, roomLength], the displayed depth is in [0.1, roomWidth], and the
\* displayed area is the displayed width times the displayed depth.
C15_Original ==
    cvDone =>
        /\ FLe(Fin(100), coverage.clampedWidth)
        /\ FLe(coverage.clampedWidth, cvInputs.roomLength)
        /\ FLe(Fin(100), coverage.clampedDepth)
        /\ FLe(coverage.clampedDepth, cvInputs.roomWidth)
        /\ coverage.clampedArea = FMul(coverage.clampedWidth, coverage.clampedDepth)

\* the displayed size of one dimension, given the footprint's size and the
\* room's extent
DisplayedWithin(shown, size, extent) ==
    IF size = NaN THEN shown = NaN
    ELSE IF FLe(Fin(100), extent)
         THEN /\ FLe(Fin(100), shown)
              /\ FLe(shown, extent)
              /\ (FLe(Fin(100), size) /\ FLe(size, extent)) => shown = size
         ELSE shown = extent

\* C15: the displayed width is in [0.1, roomLength] whenever roomLength is at
\* least 0.1, and equal to the footprint width when that lies in the interval;
\* in a room shorter than 0.1 it is roomLength; a NaN footprint width is
\* displayed as NaN.  The same holds of depth and roomWidth.  The displayed
\* area is the product of the displayed width and depth, not the footprint's
\* area.
C15_DisplayedCoverage ==
    cvDone =>
        /\ DisplayedWithin(coverage.clampedWidth, coverage.footprint.width,
                           cvInputs.roomLength)
        /\ DisplayedWithin(coverage.clampedDepth, coverage.footprint.depth,
                           cvInputs.roomWidth)
        /\ coverage.clampedArea = FMul(coverage.clampedWidth, coverage.clampedDepth)

\* a footprint 7 m wide drawn 5 m wide in a room 5 m long: the area drawn is
\* below the footprint's
C15_Witness ==
    /\ cvDone
    /\ cvInputs.roomLength = Fin(5000)
    /\ FGt(coverage.footprint.width, Fin(5000))
    /\ coverage.clampedWidth = Fin(5000)
    /\ FGt(coverage.clampedDepth, Fin(100))
    /\ FLt(coverage.clampedArea, coverage.footprint.area)

(***************************************************************************)
(* Claims about confirming a placement                                     *)
(***************************************************************************)
\* the hit point moved 0.05 along the hit's normal, component by component
Cleared(hit) ==
    <<FAdd(hit.point[1], FMul(hit.normal[1], Fin(50))),
      FAdd(hit.point[2], FMul(hit.normal[2], Fin(50))),
      FAdd(hit.point[3], FMul(hit.normal[3], Fin(50)))>>

\* C16 as stated: after a press of KeyE with a current aim hit, the placement's
\* position is the hit point plus 0.05 times the hit's corrected normal and
\* its normal is the hit's corrected normal; the ghost marker's position follows
\* the same formula.
C16_Original ==
    /\ keyE = "placed" =>
          /\ cameraPlacement.position = Cleared(aimHitRef)
          /\ cameraPlacement.normal = aimHitRef.normal
    /\ aimHit # Null => ghostPosition(aimHit) = Cleared(aimHit)

\* the bounds the re-clamp can move a coordinate to
BoundsOf(i, in) ==
    IF i = 1 THEN {in.wallThickness, FSub(in.roomLength, in.wallThickness)}
    ELSE IF i = 2 THEN {Fin(0), in.roomHeight}
    ELSE {in.wallThickness, FSub(in.roomWidth, in.wallThickness)}

\* C16: after a press of KeyE with a current aim hit, the placement's normal is
\* the hit's corrected normal, and its position is the hit point plus 0.05
\* times that normal whenever this position is inside the room's bounds;
\* otherwise the bounds re-clamp of the same update has moved the coordinates
\* that were outside to a bound and left the others.  The ghost marker's
\* position is the hit point plus 0.05 times the normal, never clamped.
C16_PlacedWithClearance ==
    /\ keyE = "placed" =>
          /\ cameraPlacement.normal = aimHitRef.normal
          /\ InBounds(Cleared(aimHitRef), inputs)
                => cameraPlacement.position = Cleared(aimHitRef)
          /\ \A i \in 1..3 :
                \/ cameraPlacement.position[i] = Cleared(aimHitRef)[i]
                \/ cameraPlacement.position[i] \in BoundsOf(i, inputs)
    /\ aimHit # Null => ghostPosition(aimHit) = Cleared(aimHit)

\* a placement confirmed 0.05 in front of wall 3 (x = 19.8 - 0.05), with the
\* ghost marker shown at the same position
C16_Witness ==
    /\ keyE = "placed"
    /\ aimHit = aimHitRef
    /\ aimHitRef.point[1] = Fin(19800)
    /\ cameraPlacement.position[1] = Fin(19750)
    /\ cameraPlacement.position = ghostPosition(aimHit)
    /\ cameraPlacement.normal = Vec(-1000, 0, 0)

(***************************************************************************)
(* Monotonicity of calcFootprint                                           *)
(***************************************************************************)
\* the footprint for the call's parameters with one field replaced
WithHfov(angle) == calcFootprint([fpParams EXCEPT !.hfovDeg = angle])

WithVfov(angle) == calcFootprint([fpParams EXCEPT !.vfovDeg = angle])

\* for the call's angles, a larger d never gives a smaller width or depth
MonotonicInDistance ==
    \A h \in HeightValues, r \in RangeValues :
        LET other == calcFootprint([fpParams EXCEPT !.cameraHeight = h,
                                                     !.rangeMax = r])
        IN  FLe(fpResult.d, other.d) =>
              /\ ~FLt(other.width, fpResult.width)
              /\ ~FLt(other.depth, fpResult.depth)

\* C17 as stated: for fixed angles a larger d never gives a smaller width or
\* depth, and for fixed d a larger horizontal angle never gives a smaller
\* width and a larger vertical angle never gives a smaller depth, over all
\* angles the function accepts.
C17_Original ==
    fpDone =>
        /\ MonotonicInDistance
        /\ \A angle \in AngleValues :
              /\ FLe(fpParams.hfovDeg, angle)
                    => ~FLt(WithHfov(angle).width, fpResult.width)
              /\ FLe(fpParams.vfovDeg, angle)
                    => ~FLt(WithVfov(angle).depth, fpResult.depth)

\* a finite angle of at most half a turn either way
UpToHalfTurn(angle) ==
    /\ IsFinite(angle)
    /\ FLe(Fin(-180 * Unit), angle)
    /\ FLe(angle, Fin(180 * Unit))

\* C17: for fixed angles a larger d never gives a smaller width or depth; for
\* fixed d and finite angles between -180 and 180 degrees a larger horizontal
\* angle never gives a smaller width and a larger vertical angle never gives
\* a smaller depth.
C17_MonotonicUpToHalfTurn ==
    fpDone =>
        /\ MonotonicInDistance
        /\ \A angle \in {a \in AngleValues : UpToHalfTurn(a)} :
              /\ (UpToHalfTurn(fpParams.hfovDeg) /\ FLe(fpParams.hfovDeg, angle))
                    => ~FLt(WithHfov(angle).width, fpResult.width)
              /\ (UpToHalfTurn(fpParams.vfovDeg) /\ FLe(fpParams.vfovDeg, angle))
                    => ~FLt(WithVfov(angle).depth, fpResult.depth)

\* the call at d = 3.5 with both angles 60: the width is positive, and smaller
\* than at 120 degrees and than at d = 5
C17_Witness ==
    /\ fpDone
    /\ fpResult.d = Fin(3500)
    /\ fpParams.hfovDeg = Fin(60000)
    /\ fpParams.vfovDeg = Fin(60000)
    /\ FGt(fpResult.width, Fin(0))
    /\ FLt(fpResult.width, WithHfov(Fin(120000)).width)
    /\ FLt(fpResult.depth,
           calcFootprint([fpParams EXCEPT !.cameraHeight = Fin(5000),
                                          !.rangeMax = Fin(30000)]).depth)

(***************************************************************************)
(* Claims about the height and the ghost marker of Mode3DParam             *)
(***************************************************************************)
\* C18: whenever a placement exists (every effect has run at the end of a
\* step), the mounting height given to calcFootprint, inputs.cameraHeight, is
\* the placement's y coordinate.
C18_HeightMatchesPlacement ==
    cameraPlacement # Null => inputs.cameraHeight = cameraPlacement.position[2]

\* the two hits differ by at most 0.001 in every component
Close(a, b) ==
    \A i \in 1..3 :
        /\ FLe(MathAbs(FSub(a.point[i], b.point[i])), Fin(1))
        /\ FLe(MathAbs(FSub(a.normal[i], b.normal[i])), Fin(1))

\* C19: while editing, the aim hit drawn as the ghost marker (aimHit) and the
\* aim hit a press of KeyE would place (aimHitRef.current) are both absent, or
\* both present and at most 0.001 apart in every component of point and
\* normal.
C19_GhostMatchesRef ==
    isEditing =>
        \/ aimHit = Null /\ aimHitRef = Null
        \/ aimHit # Null /\ aimHitRef # Null /\ Close(aimHit, aimHitRef)

=============================================================================
